---- MODULE Spec2Model ----
(***************************************************************************)
(* The timezone wizard of timeBuddy (src/cmd/wizard.go): the two-pane      *)
(* picker's model (wizardModel), its construction (buildTree,              *)
(* initWizardModel) and its key handlers (Update, handleSearchInput).      *)
(*                                                                         *)
(* Strings are sequences of one-character strings, compared byte-wise      *)
(* through Ord, as Go compares them.  Cursors and the indices stored in    *)
(* flatTreeEntry and searchMatch are 0-based, as in the Go code; a slice   *)
(* element x[i] is the sequence element x[i + 1].  tea.WindowSizeMsg only  *)
(* sets width and height, which the renderer alone reads; both are left    *)
(* out.                                                                    *)
(***************************************************************************)
EXTENDS Integers, Sequences, FiniteSets, TLC

VARIABLES
    timezonesAll,       \* the catalog (package variable timezonesAll)
    currentTimezones,   \* the caller's list handed to initWizardModel
    selected,           \* wizardModel.selected
    tree,               \* wizardModel.tree
    flatTree,           \* wizardModel.flatTree
    focusedPane,        \* wizardModel.focusedPane
    selectedCursor,     \* wizardModel.selectedCursor
    treeCursor,         \* wizardModel.treeCursor
    searchMode,         \* wizardModel.searchMode
    searchQuery,        \* wizardModel.searchQuery
    searchResults,      \* wizardModel.searchResults
    searchCursor,       \* wizardModel.searchCursor
    preSearchExpanded,  \* wizardModel.preSearchExpanded
    quitting,           \* wizardModel.quitting
    saved,              \* wizardModel.saved
    panicked,           \* a handler ran into a Go runtime panic (index out of range)
    atEntry             \* history: the navigation state when search was entered

vars == <<timezonesAll, currentTimezones, selected, tree, flatTree, focusedPane,
          selectedCursor, treeCursor, searchMode, searchQuery, searchResults, searchCursor,
          preSearchExpanded, quitting, saved, panicked, atEntry>>

(***************************************************************************)
(* Bounds of the model.                                                    *)
(***************************************************************************)
\* longest search query typed (the code sets no limit)
MaxQueryLen == 2

\* longest catalog handed to buildTree in the catalog specification
MaxCatalogLen == 3

(***************************************************************************)
(* Strings.                                                                *)
(***************************************************************************)
Upper == <<"A","B","C","D","E","F","G","H","I","J","K","L","M",
           "N","O","P","Q","R","S","T","U","V","W","X","Y","Z">>
Lower == <<"a","b","c","d","e","f","g","h","i","j","k","l","m",
           "n","o","p","q","r","s","t","u","v","w","x","y","z">>

\* the byte value of a character
Ord(c) ==
    IF c = "/" THEN 47
    ELSE IF \E i \in 1..26 : Upper[i] = c
         THEN 64 + (CHOOSE i \in 1..26 : Upper[i] = c)
         ELSE 96 + (CHOOSE i \in 1..26 : Lower[i] = c)

\* strings.ToLower, on one character
ToLowerChar(c) ==
    IF \E i \in 1..26 : Upper[i] = c
    THEN Lower[CHOOSE i \in 1..26 : Upper[i] = c]
    ELSE c

\* strings.ToLower
ToLower(s) == [i \in 1..Len(s) |-> ToLowerChar(s[i])]

\* strings.Contains(s, sub)
Contains(s, sub) ==
    \E i \in 0..(Len(s) - Len(sub)) : SubSeq(s, i + 1, i + Len(sub)) = sub

\* Go's s < t on strings: byte-wise lexicographic order
StrLess(s, t) ==
    \E k \in 0..Len(s) :
        /\ k <= Len(t)
        /\ \A j \in 1..k : s[j] = t[j]
        /\ \/ k = Len(s) /\ k < Len(t)
           \/ k < Len(s) /\ k < Len(t) /\ Ord(s[k + 1]) < Ord(t[k + 1])

Range(s) == {s[i] : i \in 1..Len(s)}

\* strings.SplitN(tz, "/", 2), for a tz that contains "/"
SlashAt(tz) == CHOOSE i \in 1..Len(tz) : tz[i] = "/" /\ \A j \in 1..(i - 1) : tz[j] # "/"
AreaOf(tz) == SubSeq(tz, 1, SlashAt(tz) - 1)
LocationOf(tz) == SubSeq(tz, SlashAt(tz) + 1, Len(tz))

(***************************************************************************)
(* Constants of the program.                                               *)
(***************************************************************************)
selectedPane == "selectedPane"
availablePane == "availablePane"

SystemName == <<"S","y","s","t","e","m">>
LocalName == <<"L","o","c","a","l">>

(***************************************************************************)
(* buildTree.                                                              *)
(***************************************************************************)
\* sort.Strings over the keys of areaMap
RECURSIVE SortStrings(_)
SortStrings(S) ==
    IF S = {} THEN <<>>
    ELSE LET least == CHOOSE x \in S : \A y \in S \ {x} : StrLess(x, y)
         IN  <<least>> \o SortStrings(S \ {least})

\* sort.Slice(area.children, by name): insertion of one node into a sorted slice
RECURSIVE InsertByName(_, _)
InsertByName(sorted, node) ==
    IF sorted = <<>> THEN <<node>>
    ELSE IF StrLess(node.name, Head(sorted).name) THEN <<node>> \o sorted
    ELSE <<Head(sorted)>> \o InsertByName(Tail(sorted), node)

\* mutant of SortChildren: the children stay in catalog order
SortChildren_unsorted(children) == children

RECURSIVE SortChildren(_)
SortChildren(children) ==
    IF children = <<>> THEN <<>>
    ELSE InsertByName(SortChildren(SubSeq(children, 1, Len(children) - 1)),
                      children[Len(children)])

\* the first loop of buildTree: the location nodes of one area, in catalog order
RECURSIVE ChildrenOf(_, _, _)
ChildrenOf(timezones, areaName, sel) ==
    IF timezones = <<>> THEN <<>>
    ELSE LET tz == Head(timezones)
             rest == ChildrenOf(Tail(timezones), areaName, sel)
         IN  IF Contains(tz, <<"/">>) /\ AreaOf(tz) = areaName
             THEN <<[name |-> LocationOf(tz), fullPath |-> tz,
                     isSelected |-> tz \in Range(sel)]>> \o rest
             ELSE rest

systemArea(sel) ==
    [name |-> SystemName, fullPath |-> SystemName, expanded |-> TRUE,
     children |-> <<[name |-> LocalName, fullPath |-> LocalName,
                     isSelected |-> LocalName \in Range(sel)]>>]

buildTree(timezones, sel) ==
    LET areaNames == SortStrings({AreaOf(timezones[i]) :
                         i \in {j \in 1..Len(timezones) : Contains(timezones[j], <<"/">>)}})
    IN  <<systemArea(sel)>> \o
        [i \in 1..Len(areaNames) |->
            [name |-> areaNames[i], fullPath |-> areaNames[i], expanded |-> FALSE,
             children |-> SortChildren(ChildrenOf(timezones, areaNames[i], sel))]]

(***************************************************************************)
(* flattenTree, getNodeFromFlatIndex, countSelectedInArea.                 *)
(***************************************************************************)
RECURSIVE flattenFrom(_, _)
flattenFrom(tr, i) ==
    IF i >= Len(tr) THEN <<>>
    ELSE <<[areaIdx |-> i, childIdx |-> -1]>>
         \o (IF tr[i + 1].expanded
             THEN [j \in 1..Len(tr[i + 1].children) |-> [areaIdx |-> i, childIdx |-> j - 1]]
             ELSE <<>>)
         \o flattenFrom(tr, i + 1)

\* mutant of flattenTree: the expanded flag is not consulted
flattenTree_ignoreExpanded(tr) ==
    flattenFrom([i \in 1..Len(tr) |-> [tr[i] EXCEPT !.expanded = TRUE]], 0)

\* mutant of flattenTree: a collapsed area gets no header row either
flattenTree_skipCollapsed(tr) ==
    SelectSeq(flattenFrom(tr, 0), LAMBDA e : tr[e.areaIdx + 1].expanded)

flattenTree(tr) == flattenFrom(tr, 0)

isArea(entry) == entry.childIdx = -1

\* getNodeFromFlatIndex returns nil for an index outside the flat view
nodeIsNil(flat, flatIdx) == flatIdx < 0 \/ flatIdx >= Len(flat)

countSelectedInArea(area, sel) ==
    Cardinality({j \in 1..Len(area.children) : area.children[j].fullPath \in Range(sel)})

(***************************************************************************)
(* Selection list helpers.                                                 *)
(***************************************************************************)
isInSelected(sel, tz) == \E i \in 1..Len(sel) : sel[i] = tz

\* mutant of removeFromSelected: the last entry is moved into the freed position
removeFromSelected_swapLast(sel, tz) ==
    IF isInSelected(sel, tz)
    THEN LET i == CHOOSE k \in 1..Len(sel) : sel[k] = tz /\ \A j \in 1..(k - 1) : sel[j] # tz
         IN  SubSeq([sel EXCEPT ![i] = sel[Len(sel)]], 1, Len(sel) - 1)
    ELSE sel

\* removes the first occurrence of tz
removeFromSelected(sel, tz) ==
    IF isInSelected(sel, tz)
    THEN LET i == CHOOSE k \in 1..Len(sel) : sel[k] = tz /\ \A j \in 1..(k - 1) : sel[j] # tz
         IN  SubSeq(sel, 1, i - 1) \o SubSeq(sel, i + 1, Len(sel))
    ELSE sel

\* mutant of updateSelectionState: the re-sync also expands every area that has
\* a selected child, as initWizardModel does once
updateSelectionState_autoExpand(tr, sel) ==
    [i \in 1..Len(tr) |->
        [tr[i] EXCEPT !.children =
                         [j \in 1..Len(tr[i].children) |->
                             [tr[i].children[j] EXCEPT !.isSelected =
                                 isInSelected(sel, tr[i].children[j].fullPath)]],
                      !.expanded = tr[i].expanded \/ countSelectedInArea(tr[i], sel) > 0]]

\* mutant of updateSelectionState: the flags are left as they were
updateSelectionState_stale(tr, sel) == tr

\* updateSelectionState: every isSelected flag is set to membership in sel
updateSelectionState(tr, sel) ==
    [i \in 1..Len(tr) |->
        [tr[i] EXCEPT !.children =
            [j \in 1..Len(tr[i].children) |->
                [tr[i].children[j] EXCEPT !.isSelected =
                    isInSelected(sel, tr[i].children[j].fullPath)]]]]

\* mutant of toggleLocation: appends without the membership test
toggleLocation_noCheck(sel, tz) == Append(sel, tz)

\* the location branch of toggleSelection, and the Space key in search mode
toggleLocation(sel, tz) ==
    IF isInSelected(sel, tz) THEN removeFromSelected(sel, tz) ELSE Append(sel, tz)

\* the "remove all" loop of the area branch of toggleSelection
RECURSIVE removeChildren(_, _)
removeChildren(sel, children) ==
    IF children = <<>> THEN sel
    ELSE removeChildren(removeFromSelected(sel, Head(children).fullPath), Tail(children))

\* mutant of addChildren: the children are visited from the last to the first
RECURSIVE addChildren_reversed(_, _)
addChildren_reversed(sel, children) ==
    IF children = <<>> THEN sel
    ELSE addChildren_reversed(IF ~isInSelected(sel, children[Len(children)].fullPath)
                              THEN Append(sel, children[Len(children)].fullPath)
                              ELSE sel,
                              SubSeq(children, 1, Len(children) - 1))

\* the "add all not yet selected" loop of the area branch of toggleSelection
RECURSIVE addChildren(_, _)
addChildren(sel, children) ==
    IF children = <<>> THEN sel
    ELSE addChildren(IF ~isInSelected(sel, Head(children).fullPath)
                     THEN Append(sel, Head(children).fullPath)
                     ELSE sel,
                     Tail(children))

\* mutant of toggleArea: a fully selected area is not deselected
toggleArea_alwaysAdd(sel, children) == addChildren(sel, children)

\* the area branch of toggleSelection
toggleArea(sel, children) ==
    IF \A j \in 1..Len(children) : isInSelected(sel, children[j].fullPath)
    THEN removeChildren(sel, children)
    ELSE addChildren(sel, children)

\* toggleSelection in the available pane: the selection list it leaves
toggleAvailable(sel, tr, flat, cursor) ==
    IF nodeIsNil(flat, cursor) THEN sel
    ELSE LET entry == flat[cursor + 1]
         IN  IF isArea(entry)
             THEN toggleArea(sel, tr[entry.areaIdx + 1].children)
             ELSE toggleLocation(sel, tr[entry.areaIdx + 1].children[entry.childIdx + 1].fullPath)

\* removeSelected: the slice without the element at index cursor
removeAt(sel, cursor) == SubSeq(sel, 1, cursor) \o SubSeq(sel, cursor + 2, Len(sel))

\* mutant of cursorAfterRemove: the cursor is left where it was
cursorAfterRemove_stay(newSel, cursor) == cursor

\* removeSelected: the cursor after the removal that left the list newSel
cursorAfterRemove(newSel, cursor) ==
    IF cursor >= Len(newSel) /\ cursor > 0 THEN cursor - 1 ELSE cursor

(***************************************************************************)
(* Expansion.                                                              *)
(***************************************************************************)
expandedOf(tr) == [i \in 1..Len(tr) |-> tr[i].expanded]

\* mutant of flipFirstWithPath: collapsing an area drops its children
flipFirstWithPath_dropChildren(tr, path) ==
    IF \E i \in 1..Len(tr) : tr[i].fullPath = path
    THEN LET i == CHOOSE k \in 1..Len(tr) :
                      tr[k].fullPath = path /\ \A j \in 1..(k - 1) : tr[j].fullPath # path
         IN  IF tr[i].expanded
             THEN [tr EXCEPT ![i].expanded = FALSE, ![i].children = <<>>]
             ELSE [tr EXCEPT ![i].expanded = TRUE]
    ELSE tr

\* toggleExpand: the loop that finds the area by fullPath and flips it
flipFirstWithPath(tr, path) ==
    IF \E i \in 1..Len(tr) : tr[i].fullPath = path
    THEN LET i == CHOOSE k \in 1..Len(tr) :
                      tr[k].fullPath = path /\ \A j \in 1..(k - 1) : tr[j].fullPath # path
         IN  [tr EXCEPT ![i].expanded = ~tr[i].expanded]
    ELSE tr

\* mutant of clampTreeCursor: no adjustment
clampTreeCursor_none(cursor, flat) == cursor

\* toggleExpand: the cursor adjustment
clampTreeCursor(cursor, flat) == IF cursor >= Len(flat) THEN Len(flat) - 1 ELSE cursor

(***************************************************************************)
(* Search.                                                                 *)
(***************************************************************************)
NilMap == [isNil |-> TRUE, m |-> <<>>]

\* mutant of saveExpansion: only the expanded areas get an entry
saveExpansion_expandedOnly(tr) ==
    [isNil |-> FALSE, m |-> [i \in {k \in 0..(Len(tr) - 1) : tr[k + 1].expanded} |-> TRUE]]

\* mutant of saveExpansion: every area is saved as expanded
saveExpansion_allExpanded(tr) ==
    [isNil |-> FALSE, m |-> [i \in 0..(Len(tr) - 1) |-> TRUE]]

\* enterSearchMode: the saved expansion map, keyed by area index
saveExpansion(tr) == [isNil |-> FALSE, m |-> [i \in 0..(Len(tr) - 1) |-> tr[i + 1].expanded]]

\* mutant of restoreExpansion: the saved map is read at i + 1 instead of i
restoreExpansion_shifted(tr, pre) ==
    [i \in 1..Len(tr) |->
        IF i \in DOMAIN pre.m THEN [tr[i] EXCEPT !.expanded = pre.m[i]] ELSE tr[i]]

\* exitSearchMode: the restore loop
restoreExpansion(tr, pre) ==
    [i \in 1..Len(tr) |->
        IF (i - 1) \in DOMAIN pre.m THEN [tr[i] EXCEPT !.expanded = pre.m[i - 1]] ELSE tr[i]]

\* mutant of treeAfterExit: the test of keepExpansion is inverted
treeAfterExit_keepInverted(tr, pre, keepExpansion) ==
    IF keepExpansion /\ ~pre.isNil THEN restoreExpansion(tr, pre) ELSE tr

\* mutant of treeAfterExit: the saved expansion is restored whatever keepExpansion is
treeAfterExit_alwaysRestore(tr, pre, keepExpansion) ==
    IF ~pre.isNil THEN restoreExpansion(tr, pre) ELSE tr

\* exitSearchMode: the tree it leaves
treeAfterExit(tr, pre, keepExpansion) ==
    IF ~keepExpansion /\ ~pre.isNil THEN restoreExpansion(tr, pre) ELSE tr

\* exitSearchMode: the flat view it leaves
flatAfterExit(tr, flat, pre, keepExpansion) ==
    IF ~keepExpansion /\ ~pre.isNil THEN flattenTree(restoreExpansion(tr, pre)) ELSE flat

\* performSearch: the coordinates of every location node, in traversal order
RECURSIVE locationsFrom(_, _)
locationsFrom(tr, i) ==
    IF i >= Len(tr) THEN <<>>
    ELSE [j \in 1..Len(tr[i + 1].children) |-> [areaIdx |-> i, childIdx |-> j - 1]]
         \o locationsFrom(tr, i + 1)

\* mutant of searchMatches: no early return for the empty query, which every
\* fullPath contains
searchMatches_noEmptyGuard(tr, sel, query) ==
    LET q == ToLower(query)
        node(c) == tr[c.areaIdx + 1].children[c.childIdx + 1]
        hit(c) == Contains(ToLower(node(c).fullPath), q)
        hits == SelectSeq(locationsFrom(tr, 0), hit)
    IN  [k \in 1..Len(hits) |->
           [fullPath |-> node(hits[k]).fullPath,
            areaIdx |-> hits[k].areaIdx,
            childIdx |-> hits[k].childIdx,
            isSelected |-> isInSelected(sel, node(hits[k]).fullPath)]]

\* mutant of searchMatches: the fullPath is compared without lower-casing it
searchMatches_pathCase(tr, sel, query) ==
    IF query = <<>> THEN <<>>
    ELSE LET q == ToLower(query)
             node(c) == tr[c.areaIdx + 1].children[c.childIdx + 1]
             hit(c) == Contains(node(c).fullPath, q)
             hits == SelectSeq(locationsFrom(tr, 0), hit)
         IN  [k \in 1..Len(hits) |->
                [fullPath |-> node(hits[k]).fullPath,
                 areaIdx |-> hits[k].areaIdx,
                 childIdx |-> hits[k].childIdx,
                 isSelected |-> isInSelected(sel, node(hits[k]).fullPath)]]

\* performSearch: the match list
searchMatches(tr, sel, query) ==
    IF query = <<>> THEN <<>>
    ELSE LET q == ToLower(query)
             node(c) == tr[c.areaIdx + 1].children[c.childIdx + 1]
             hit(c) == Contains(ToLower(node(c).fullPath), q)
             hits == SelectSeq(locationsFrom(tr, 0), hit)
         IN  [k \in 1..Len(hits) |->
                [fullPath |-> node(hits[k]).fullPath,
                 areaIdx |-> hits[k].areaIdx,
                 childIdx |-> hits[k].childIdx,
                 isSelected |-> isInSelected(sel, node(hits[k]).fullPath)]]

\* mutant of cursorAfterSearch: no reset of a cursor past the new match list
cursorAfterSearch_noReset(cursor, query, results) ==
    IF query = <<>> THEN 0 ELSE cursor

\* performSearch: the search cursor it leaves
cursorAfterSearch(cursor, query, results) ==
    IF query = <<>> THEN 0
    ELSE IF cursor >= Len(results) THEN 0 ELSE cursor

(***************************************************************************)
(* Cursor movement and reordering.                                         *)
(***************************************************************************)
\* moveCursorUp: either cursor
moveUp(cursor) == IF cursor > 0 THEN cursor - 1 ELSE cursor

\* mutant of moveDown: the bound is len instead of len - 1
moveDown_offByOne(cursor, n) == IF cursor < n THEN cursor + 1 ELSE cursor

\* moveCursorDown: either cursor, n the length of its collection
moveDown(cursor, n) == IF cursor < n - 1 THEN cursor + 1 ELSE cursor

\* handleSearchInput, "up"
searchUp(cursor, results) ==
    IF Len(results) > 0 /\ cursor > 0 THEN cursor - 1 ELSE cursor

\* mutant of searchDown: no test against the last match
searchDown_noBound(cursor, results) ==
    IF Len(results) > 0 THEN cursor + 1 ELSE cursor

\* handleSearchInput, "down"
searchDown(cursor, results) ==
    IF Len(results) > 0 /\ cursor < Len(results) - 1 THEN cursor + 1 ELSE cursor

\* the guard of moveSelectedUp
moveSelectedUpActs(sel, cursor) == cursor > 0 /\ Len(sel) > 1

\* the guard of moveSelectedDown
moveSelectedDownActs(sel, cursor) == cursor < Len(sel) - 1 /\ Len(sel) > 1

\* Go panics on sel[i] with i outside 0..len(sel)-1
indexOutOfRange(sel, i) == i < 0 \/ i >= Len(sel)

\* sel[i], sel[j] = sel[j], sel[i]
swap(sel, i, j) == [sel EXCEPT ![i + 1] = sel[j + 1], ![j + 1] = sel[i + 1]]

(***************************************************************************)
(* The sessions explored: a catalog (timezonesAll) and the caller's list.  *)
(***************************************************************************)
tzAll == <<"A","/","l","l">>
tzAcl == <<"A","/","c","l">>
tzELL == <<"E","/","L","L">>
tzSll == <<"S","y","s","t","e","m","/","l","l">>
tzUTC == <<"U","T","C">>

Sessions ==
    { [timezonesAll |-> <<tzAll, tzAcl>>, current |-> <<tzAll>>],
      [timezonesAll |-> <<tzSll, tzUTC, tzELL>>, current |-> <<tzELL>>],
      [timezonesAll |-> <<tzUTC>>, current |-> <<tzUTC, LocalName>>],
      [timezonesAll |-> <<>>, current |-> <<LocalName, LocalName>>],
      [timezonesAll |-> <<>>, current |-> <<>>] }

\* the runes typed into the search query
QueryRunes == {"L"}

(***************************************************************************)
(* initWizardModel.                                                        *)
(***************************************************************************)
\* mutant of autoExpand: no area is expanded for its selected children
autoExpand_none(tr, current) == tr

\* the auto-expansion loop of initWizardModel
autoExpand(tr, current) ==
    [i \in 1..Len(tr) |->
        IF countSelectedInArea(tr[i], current) > 0
        THEN [tr[i] EXCEPT !.expanded = TRUE]
        ELSE tr[i]]

NoEntry ==
    [pure |-> FALSE, expanded |-> <<>>, treeCursor |-> 0, selectedCursor |-> 0,
     focusedPane |-> availablePane, flatTree |-> <<>>, selected |-> <<>>]

\* initWizardModel(current), with the catalog timezones
initWizardModel(timezones, current) ==
    /\ timezonesAll = timezones
    /\ currentTimezones = current
    /\ selected = current
    /\ tree = updateSelectionState(autoExpand(buildTree(timezones, current), current), current)
    /\ flatTree = flattenTree(autoExpand(buildTree(timezones, current), current))
    /\ focusedPane = availablePane
    /\ selectedCursor = 0
    /\ treeCursor = 0
    /\ searchMode = FALSE
    /\ searchQuery = <<>>
    /\ searchResults = <<>>
    /\ searchCursor = 0
    /\ preSearchExpanded = NilMap
    /\ quitting = FALSE
    /\ saved = FALSE
    /\ panicked = FALSE
    /\ atEntry = NoEntry

Init == \E s \in Sessions : initWizardModel(s.timezonesAll, s.current)

(***************************************************************************)
(* wizardModel.Update: one action per key message, outside search mode.    *)
(***************************************************************************)
\* the program takes key messages until it quits or panics
Running == ~quitting /\ ~panicked

searchVars == <<searchMode, searchQuery, searchResults, searchCursor, preSearchExpanded>>

\* removeSelected
removeSelected ==
    IF Len(selected) = 0 \/ selectedCursor >= Len(selected)
    THEN UNCHANGED <<selected, selectedCursor, tree>>
    ELSE /\ selected' = removeAt(selected, selectedCursor)
         /\ selectedCursor' = cursorAfterRemove(selected', selectedCursor)
         /\ tree' = updateSelectionState(tree, selected')

\* mutant of KeyQuit: the Quit case is tried before the search-mode dispatch
KeyQuit_anyMode ==
    /\ Running
    /\ quitting' = TRUE
    /\ saved' = TRUE
    /\ atEntry' = NoEntry
    /\ UNCHANGED <<timezonesAll, currentTimezones, selected, tree, flatTree, focusedPane, selectedCursor,
                   treeCursor, searchVars, panicked>>

\* mutant of KeyQuit: the session is marked as quitting but not as saved
KeyQuit_noSave ==
    /\ Running /\ ~searchMode
    /\ quitting' = TRUE
    /\ atEntry' = NoEntry
    /\ UNCHANGED <<timezonesAll, currentTimezones, selected, tree, flatTree, focusedPane,
                   selectedCursor, treeCursor, searchVars, saved, panicked>>

KeyQuit ==
    /\ Running /\ ~searchMode
    /\ quitting' = TRUE
    /\ saved' = TRUE
    /\ atEntry' = NoEntry
    /\ UNCHANGED <<timezonesAll, currentTimezones, selected, tree, flatTree, focusedPane, selectedCursor,
                   treeCursor, searchVars, panicked>>

\* mutant of KeyTab: the focus always goes to the selected pane
KeyTab_oneWay ==
    /\ Running /\ ~searchMode
    /\ focusedPane' = selectedPane
    /\ atEntry' = NoEntry
    /\ UNCHANGED <<timezonesAll, currentTimezones, selected, tree, flatTree, selectedCursor, treeCursor,
                   searchVars, quitting, saved, panicked>>

\* Tab: the focus goes to the other pane
KeyTab ==
    /\ Running /\ ~searchMode
    /\ focusedPane' = IF focusedPane = selectedPane THEN availablePane ELSE selectedPane
    /\ atEntry' = NoEntry
    /\ UNCHANGED <<timezonesAll, currentTimezones, selected, tree, flatTree, selectedCursor, treeCursor,
                   searchVars, quitting, saved, panicked>>

\* enterSearchMode
KeySearch ==
    /\ Running /\ ~searchMode
    /\ searchMode' = TRUE
    /\ searchQuery' = <<>>
    /\ searchResults' = <<>>
    /\ searchCursor' = 0
    /\ preSearchExpanded' = saveExpansion(tree)
    /\ atEntry' = [pure |-> TRUE, expanded |-> expandedOf(tree), treeCursor |-> treeCursor,
                   selectedCursor |-> selectedCursor, focusedPane |-> focusedPane,
                   flatTree |-> flatTree, selected |-> selected]
    /\ UNCHANGED <<timezonesAll, currentTimezones, selected, tree, flatTree, focusedPane, selectedCursor,
                   treeCursor, quitting, saved, panicked>>

\* moveCursorUp
KeyUp ==
    /\ Running /\ ~searchMode
    /\ IF focusedPane = selectedPane
       THEN selectedCursor' = moveUp(selectedCursor) /\ UNCHANGED treeCursor
       ELSE treeCursor' = moveUp(treeCursor) /\ UNCHANGED selectedCursor
    /\ atEntry' = NoEntry
    /\ UNCHANGED <<timezonesAll, currentTimezones, selected, tree, flatTree, focusedPane, searchVars,
                   quitting, saved, panicked>>

\* moveCursorDown
KeyDown ==
    /\ Running /\ ~searchMode
    /\ IF focusedPane = selectedPane
       THEN selectedCursor' = moveDown(selectedCursor, Len(selected)) /\ UNCHANGED treeCursor
       ELSE treeCursor' = moveDown(treeCursor, Len(flatTree)) /\ UNCHANGED selectedCursor
    /\ atEntry' = NoEntry
    /\ UNCHANGED <<timezonesAll, currentTimezones, selected, tree, flatTree, focusedPane, searchVars,
                   quitting, saved, panicked>>

\* moveSelectedUp, called in the selected pane only
KeyShiftUp ==
    /\ Running /\ ~searchMode
    /\ IF focusedPane = selectedPane /\ moveSelectedUpActs(selected, selectedCursor)
       THEN IF indexOutOfRange(selected, selectedCursor)
               \/ indexOutOfRange(selected, selectedCursor - 1)
            THEN panicked' = TRUE /\ UNCHANGED <<selected, selectedCursor>>
            ELSE /\ selected' = swap(selected, selectedCursor, selectedCursor - 1)
                 /\ selectedCursor' = selectedCursor - 1
                 /\ UNCHANGED panicked
       ELSE UNCHANGED <<selected, selectedCursor, panicked>>
    /\ atEntry' = NoEntry
    /\ UNCHANGED <<timezonesAll, currentTimezones, tree, flatTree, focusedPane, treeCursor, searchVars,
                   quitting, saved>>

\* moveSelectedDown, called in the selected pane only
KeyShiftDown ==
    /\ Running /\ ~searchMode
    /\ IF focusedPane = selectedPane /\ moveSelectedDownActs(selected, selectedCursor)
       THEN IF indexOutOfRange(selected, selectedCursor)
               \/ indexOutOfRange(selected, selectedCursor + 1)
            THEN panicked' = TRUE /\ UNCHANGED <<selected, selectedCursor>>
            ELSE /\ selected' = swap(selected, selectedCursor, selectedCursor + 1)
                 /\ selectedCursor' = selectedCursor + 1
                 /\ UNCHANGED panicked
       ELSE UNCHANGED <<selected, selectedCursor, panicked>>
    /\ atEntry' = NoEntry
    /\ UNCHANGED <<timezonesAll, currentTimezones, tree, flatTree, focusedPane, treeCursor, searchVars,
                   quitting, saved>>

\* mutant of KeySpace: in the selected pane the removal falls through to the
\* toggle of the node under the tree cursor
KeySpace_fallThrough ==
    /\ Running /\ ~searchMode
    /\ LET afterRemove ==
               IF focusedPane = selectedPane /\ Len(selected) > 0
                  /\ selectedCursor < Len(selected)
               THEN removeAt(selected, selectedCursor)
               ELSE selected
       IN  /\ selected' = toggleAvailable(afterRemove, tree, flatTree, treeCursor)
           /\ selectedCursor' =
                 IF afterRemove # selected THEN cursorAfterRemove(afterRemove, selectedCursor)
                 ELSE selectedCursor
           /\ tree' = updateSelectionState(tree, selected')
    /\ atEntry' = NoEntry
    /\ UNCHANGED <<timezonesAll, currentTimezones, flatTree, focusedPane, treeCursor,
                   searchVars, quitting, saved, panicked>>

\* toggleSelection
KeySpace ==
    /\ Running /\ ~searchMode
    /\ IF focusedPane = selectedPane
       THEN removeSelected
       ELSE IF nodeIsNil(flatTree, treeCursor)
            THEN UNCHANGED <<selected, selectedCursor, tree>>
            ELSE /\ selected' = toggleAvailable(selected, tree, flatTree, treeCursor)
                 /\ tree' = updateSelectionState(tree, selected')
                 /\ UNCHANGED selectedCursor
    /\ atEntry' = NoEntry
    /\ UNCHANGED <<timezonesAll, currentTimezones, flatTree, focusedPane, treeCursor, searchVars,
                   quitting, saved, panicked>>

\* mutant of KeyEnter: toggleExpand is called whatever pane is focused
KeyEnter_anyPane ==
    /\ Running /\ ~searchMode
    /\ IF ~nodeIsNil(flatTree, treeCursor) /\ isArea(flatTree[treeCursor + 1])
       THEN /\ tree' = flipFirstWithPath(tree, tree[flatTree[treeCursor + 1].areaIdx + 1].fullPath)
            /\ flatTree' = flattenTree(tree')
            /\ treeCursor' = clampTreeCursor(treeCursor, flatTree')
       ELSE UNCHANGED <<tree, flatTree, treeCursor>>
    /\ atEntry' = NoEntry
    /\ UNCHANGED <<timezonesAll, currentTimezones, selected, focusedPane, selectedCursor, searchVars,
                   quitting, saved, panicked>>

\* toggleExpand, called in the available pane only
KeyEnter ==
    /\ Running /\ ~searchMode
    /\ IF focusedPane = availablePane /\ ~nodeIsNil(flatTree, treeCursor)
          /\ isArea(flatTree[treeCursor + 1])
       THEN /\ tree' = flipFirstWithPath(tree, tree[flatTree[treeCursor + 1].areaIdx + 1].fullPath)
            /\ flatTree' = flattenTree(tree')
            /\ treeCursor' = clampTreeCursor(treeCursor, flatTree')
       ELSE UNCHANGED <<tree, flatTree, treeCursor>>
    /\ atEntry' = NoEntry
    /\ UNCHANGED <<timezonesAll, currentTimezones, selected, focusedPane, selectedCursor, searchVars,
                   quitting, saved, panicked>>

\* removeSelected, called in the selected pane only
KeyDelete ==
    /\ Running /\ ~searchMode
    /\ IF focusedPane = selectedPane
       THEN removeSelected
       ELSE UNCHANGED <<selected, selectedCursor, tree>>
    /\ atEntry' = NoEntry
    /\ UNCHANGED <<timezonesAll, currentTimezones, flatTree, focusedPane, treeCursor, searchVars,
                   quitting, saved, panicked>>

(***************************************************************************)
(* handleSearchInput: one action per key message, in search mode.          *)
(***************************************************************************)
navVars == <<focusedPane, selectedCursor, treeCursor>>

\* Escape: exitSearchMode(false)
SearchEscape ==
    /\ Running /\ searchMode
    /\ searchMode' = FALSE
    /\ searchQuery' = <<>>
    /\ searchResults' = <<>>
    /\ searchCursor' = 0
    /\ tree' = treeAfterExit(tree, preSearchExpanded, FALSE)
    /\ flatTree' = flatAfterExit(tree, flatTree, preSearchExpanded, FALSE)
    /\ preSearchExpanded' = NilMap
    /\ atEntry' = NoEntry
    /\ UNCHANGED <<timezonesAll, currentTimezones, selected, navVars, quitting, saved, panicked>>

\* "up" (the arrow key only)
SearchUp ==
    /\ Running /\ searchMode
    /\ searchCursor' = searchUp(searchCursor, searchResults)
    /\ UNCHANGED <<timezonesAll, currentTimezones, selected, tree, flatTree, navVars, searchMode,
                   searchQuery, searchResults, preSearchExpanded, quitting, saved,
                   panicked, atEntry>>

\* "down" (the arrow key only)
SearchDown ==
    /\ Running /\ searchMode
    /\ searchCursor' = searchDown(searchCursor, searchResults)
    /\ UNCHANGED <<timezonesAll, currentTimezones, selected, tree, flatTree, navVars, searchMode,
                   searchQuery, searchResults, preSearchExpanded, quitting, saved,
                   panicked, atEntry>>

\* mutant of SearchSpace: performSearch is not run again after the toggle
SearchSpace_noRefresh ==
    /\ Running /\ searchMode
    /\ IF Len(searchResults) > 0 /\ searchCursor < Len(searchResults)
       THEN /\ selected' = toggleLocation(selected, searchResults[searchCursor + 1].fullPath)
            /\ tree' = updateSelectionState(tree, selected')
            /\ atEntry' = [atEntry EXCEPT !.pure = FALSE, !.selected = <<>>]
            /\ UNCHANGED <<searchResults, searchCursor>>
       ELSE UNCHANGED <<selected, tree, searchResults, searchCursor, atEntry>>
    /\ UNCHANGED <<timezonesAll, currentTimezones, flatTree, navVars, searchMode, searchQuery,
                   preSearchExpanded, quitting, saved, panicked>>

\* Space: toggle the match under the search cursor, then performSearch
SearchSpace ==
    /\ Running /\ searchMode
    /\ IF Len(searchResults) > 0 /\ searchCursor < Len(searchResults)
       THEN /\ selected' = toggleLocation(selected, searchResults[searchCursor + 1].fullPath)
            /\ tree' = updateSelectionState(tree, selected')
            /\ searchResults' = searchMatches(tree', selected', searchQuery)
            /\ searchCursor' = cursorAfterSearch(searchCursor, searchQuery, searchResults')
            /\ atEntry' = [atEntry EXCEPT !.pure = FALSE, !.selected = <<>>]
       ELSE UNCHANGED <<selected, tree, searchResults, searchCursor, atEntry>>
    /\ UNCHANGED <<timezonesAll, currentTimezones, flatTree, navVars, searchMode, searchQuery,
                   preSearchExpanded, quitting, saved, panicked>>

\* the row of the flat view that holds the coordinate of match, if there is one
rowOf(flat, match) ==
    {i \in 0..(Len(flat) - 1) :
        flat[i + 1].areaIdx = match.areaIdx /\ flat[i + 1].childIdx = match.childIdx}

\* Enter, the loop that places the tree cursor on the committed match
cursorAtMatch(cursor, flat, match) ==
    IF rowOf(flat, match) = {} THEN cursor
    ELSE CHOOSE i \in rowOf(flat, match) : \A k \in rowOf(flat, match) : i <= k

\* mutant of SearchEnter: the focus goes to the available pane in both branches
SearchEnter_focusAlways ==
    /\ Running /\ searchMode
    /\ IF Len(searchResults) > 0 /\ searchCursor < Len(searchResults)
       THEN LET match == searchResults[searchCursor + 1]
            IN  /\ tree' = treeAfterExit([tree EXCEPT ![match.areaIdx + 1].expanded = TRUE],
                                         preSearchExpanded, TRUE)
                /\ flatTree' = flattenTree(tree')
                /\ treeCursor' = cursorAtMatch(treeCursor, flatTree', match)
       ELSE /\ tree' = treeAfterExit(tree, preSearchExpanded, FALSE)
            /\ flatTree' = flatAfterExit(tree, flatTree, preSearchExpanded, FALSE)
            /\ UNCHANGED treeCursor
    /\ focusedPane' = availablePane
    /\ searchMode' = FALSE
    /\ searchQuery' = <<>>
    /\ searchResults' = <<>>
    /\ searchCursor' = 0
    /\ preSearchExpanded' = NilMap
    /\ atEntry' = NoEntry
    /\ UNCHANGED <<timezonesAll, currentTimezones, selected, selectedCursor, quitting, saved, panicked>>

\* mutant of SearchEnter: the committed match is also added to the selection
SearchEnter_selecting ==
    /\ Running /\ searchMode
    /\ IF Len(searchResults) > 0 /\ searchCursor < Len(searchResults)
       THEN LET match == searchResults[searchCursor + 1]
            IN  /\ selected' = Append(selected, match.fullPath)
                /\ tree' = treeAfterExit([tree EXCEPT ![match.areaIdx + 1].expanded = TRUE],
                                         preSearchExpanded, TRUE)
                /\ flatTree' = flattenTree(tree')
                /\ treeCursor' = cursorAtMatch(treeCursor, flatTree', match)
                /\ focusedPane' = availablePane
       ELSE /\ tree' = treeAfterExit(tree, preSearchExpanded, FALSE)
            /\ flatTree' = flatAfterExit(tree, flatTree, preSearchExpanded, FALSE)
            /\ UNCHANGED <<selected, treeCursor, focusedPane>>
    /\ searchMode' = FALSE
    /\ searchQuery' = <<>>
    /\ searchResults' = <<>>
    /\ searchCursor' = 0
    /\ preSearchExpanded' = NilMap
    /\ atEntry' = NoEntry
    /\ UNCHANGED <<timezonesAll, currentTimezones, selectedCursor, quitting, saved, panicked>>

\* Enter: commit the match under the search cursor, or leave as Escape does
SearchEnter ==
    /\ Running /\ searchMode
    /\ IF Len(searchResults) > 0 /\ searchCursor < Len(searchResults)
       THEN LET match == searchResults[searchCursor + 1]
            IN  /\ tree' = treeAfterExit([tree EXCEPT ![match.areaIdx + 1].expanded = TRUE],
                                         preSearchExpanded, TRUE)
                /\ flatTree' = flattenTree(tree')
                /\ treeCursor' = cursorAtMatch(treeCursor, flatTree', match)
                /\ focusedPane' = availablePane
       ELSE /\ tree' = treeAfterExit(tree, preSearchExpanded, FALSE)
            /\ flatTree' = flatAfterExit(tree, flatTree, preSearchExpanded, FALSE)
            /\ UNCHANGED <<treeCursor, focusedPane>>
    /\ searchMode' = FALSE
    /\ searchQuery' = <<>>
    /\ searchResults' = <<>>
    /\ searchCursor' = 0
    /\ preSearchExpanded' = NilMap
    /\ atEntry' = NoEntry
    /\ UNCHANGED <<timezonesAll, currentTimezones, selected, selectedCursor, quitting, saved, panicked>>

\* mutant of SearchBackspace: Backspace on an empty query leaves search mode
SearchBackspace_exitsOnEmpty ==
    /\ Running /\ searchMode
    /\ IF Len(searchQuery) > 0
       THEN /\ searchQuery' = SubSeq(searchQuery, 1, Len(searchQuery) - 1)
            /\ searchResults' = searchMatches(tree, selected, searchQuery')
            /\ searchCursor' = cursorAfterSearch(searchCursor, searchQuery', searchResults')
            /\ UNCHANGED <<tree, flatTree, searchMode, preSearchExpanded, atEntry>>
       ELSE /\ searchMode' = FALSE
            /\ tree' = treeAfterExit(tree, preSearchExpanded, FALSE)
            /\ flatTree' = flatAfterExit(tree, flatTree, preSearchExpanded, FALSE)
            /\ preSearchExpanded' = NilMap
            /\ atEntry' = NoEntry
            /\ UNCHANGED <<searchQuery, searchResults, searchCursor>>
    /\ UNCHANGED <<timezonesAll, currentTimezones, selected, navVars, quitting, saved, panicked>>

\* Backspace: drop the last rune of the query, then performSearch
SearchBackspace ==
    /\ Running /\ searchMode
    /\ IF Len(searchQuery) > 0
       THEN /\ searchQuery' = SubSeq(searchQuery, 1, Len(searchQuery) - 1)
            /\ searchResults' = searchMatches(tree, selected, searchQuery')
            /\ searchCursor' = cursorAfterSearch(searchCursor, searchQuery', searchResults')
       ELSE UNCHANGED <<searchQuery, searchResults, searchCursor>>
    /\ UNCHANGED <<timezonesAll, currentTimezones, selected, tree, flatTree, navVars, searchMode,
                   preSearchExpanded, quitting, saved, panicked, atEntry>>

\* mutant of SearchRunes: the rune is appended without running performSearch
SearchRunes_noSearch(r) ==
    /\ Running /\ searchMode
    /\ Len(searchQuery) < MaxQueryLen
    /\ searchQuery' = Append(searchQuery, r)
    /\ UNCHANGED <<timezonesAll, currentTimezones, selected, tree, flatTree, navVars, searchMode,
                   searchResults, searchCursor, preSearchExpanded, quitting, saved, panicked,
                   atEntry>>

\* Runes: append the typed rune to the query, then performSearch
SearchRunes(r) ==
    /\ Running /\ searchMode
    /\ Len(searchQuery) < MaxQueryLen
    /\ searchQuery' = Append(searchQuery, r)
    /\ searchResults' = searchMatches(tree, selected, searchQuery')
    /\ searchCursor' = cursorAfterSearch(searchCursor, searchQuery', searchResults')
    /\ UNCHANGED <<timezonesAll, currentTimezones, selected, tree, flatTree, navVars, searchMode,
                   preSearchExpanded, quitting, saved, panicked, atEntry>>

\* any key message no case of Update or handleSearchInput matches
KeyOther ==
    /\ Running
    /\ UNCHANGED vars

\* runWizard: what it hands back to its caller once the program has ended
Nil == <<"nil">>
runWizardResult == IF saved THEN selected ELSE Nil

Next ==
    \/ KeyQuit
    \/ KeyTab
    \/ KeySearch
    \/ KeyUp
    \/ KeyDown
    \/ KeyShiftUp
    \/ KeyShiftDown
    \/ KeySpace
    \/ KeyEnter
    \/ KeyDelete
    \/ SearchEscape
    \/ SearchUp
    \/ SearchDown
    \/ SearchSpace
    \/ SearchEnter
    \/ SearchBackspace
    \/ \E r \in QueryRunes : SearchRunes(r)
    \/ KeyOther

Spec == Init /\ [][Next]_vars

(***************************************************************************)
(* The catalog specification: buildTree, initWizardModel, flattenTree and  *)
(* performSearch over every catalog of up to MaxCatalogLen entries, in any *)
(* order and with repetitions; the keys taken are those that change the    *)
(* expansion flags, the tree cursor and the search query.                  *)
(***************************************************************************)
CatalogEntries == {tzAll, tzAcl, tzELL, tzUTC}

Catalogs == UNION {[1..n -> CatalogEntries] : n \in 0..MaxCatalogLen}

\* the caller's lists
InitialLists == {<<>>, <<tzAll>>, <<tzELL, LocalName>>}

\* the runes typed into the search query
CatalogRunes == {"A", "/"}

InitCatalog == \E c \in Catalogs : \E current \in InitialLists : initWizardModel(c, current)

NextCatalog ==
    \/ KeyDown
    \/ KeyEnter
    \/ KeySearch
    \/ \E r \in CatalogRunes : SearchRunes(r)
    \/ SearchEscape

CatalogSpec == InitCatalog /\ [][NextCatalog]_vars

(***************************************************************************)
(* The search-key specification: in search mode the keys that normal mode  *)
(* binds to Quit, Delete, ShiftUp, ShiftDown and Tab are pressed, next to   *)
(* the keys of search mode itself.                                         *)
(***************************************************************************)
SearchKeySessions ==
    { [timezonesAll |-> <<tzAll, tzAcl>>, current |-> <<tzAll>>],
      [timezonesAll |-> <<tzSll, tzUTC, tzELL>>, current |-> <<tzELL>>] }

\* the rune keys of Quit ("q"), Delete ("x"), ShiftUp ("K") and ShiftDown ("J")
NormalKeyRunes == {"q", "x", "K", "J"}

\* the runes typed into the search query
SearchKeyRunes == NormalKeyRunes \cup {"L"}

\* handleSearchInput for tab, delete, shift+up, shift+down and ctrl+c: no case
\* matches and the model is returned as it is
SearchUnhandled ==
    /\ Running /\ searchMode
    /\ UNCHANGED vars

InitSearchKey == \E s \in SearchKeySessions : initWizardModel(s.timezonesAll, s.current)

NextSearchKey ==
    \/ KeyQuit
    \/ KeyTab
    \/ KeySearch
    \/ \E r \in SearchKeyRunes : SearchRunes(r)
    \/ SearchBackspace
    \/ SearchDown
    \/ SearchSpace
    \/ SearchEnter
    \/ SearchEscape
    \/ SearchUnhandled

SearchKeySpec == InitSearchKey /\ [][NextSearchKey]_vars

(***************************************************************************)
(* Properties.                                                             *)
(***************************************************************************)
NoDuplicates(sel) == \A i, j \in 1..Len(sel) : sel[i] = sel[j] => i = j

\* c is a usable cursor into a collection of n elements
CursorOK(c, n) == IF n = 0 THEN c = 0 ELSE c \in 0..(n - 1)

\* C1: every command completes without an out-of-range index access (no handler
\* panics), whatever sequence of commands led to the state.
C1_Totality == ~panicked

\* C2: selectedCursor is a valid index of the selection list in every reachable
\* state: within 0..len-1 when the list is non-empty, 0 when it is empty.
C2_SelectedCursorValid == CursorOK(selectedCursor, Len(selected))

\* C3: starting from a duplicate-free initial selection, the selection list holds
\* no fullPath twice in any reachable state.
C3_NoDuplicates == NoDuplicates(currentTimezones) => NoDuplicates(selected)

\* C3 witness: from a duplicate-free initial list, toggles have grown the list to
\* three entries and the entry that was first is no longer first.
C3_Witness ==
    /\ NoDuplicates(currentTimezones)
    /\ Len(currentTimezones) = 1
    /\ Len(selected) = 3
    /\ selected[3] = currentTimezones[1]

\* C4: for every location node of the tree, isSelected holds exactly when the
\* node's fullPath is a member of the selection list.
C4_SelectionSync ==
    \A i \in 1..Len(tree) : \A j \in 1..Len(tree[i].children) :
        tree[i].children[j].isSelected <=> tree[i].children[j].fullPath \in Range(selected)

\* C4 witness: a node selected at construction is now unselected and a node that
\* was not selected at construction is now selected.
C4_Witness ==
    /\ \E i \in 1..Len(tree) : \E j \in 1..Len(tree[i].children) :
          /\ tree[i].children[j].isSelected
          /\ tree[i].children[j].fullPath \notin Range(currentTimezones)
    /\ \E i \in 1..Len(tree) : \E j \in 1..Len(tree[i].children) :
          /\ ~tree[i].children[j].isSelected
          /\ tree[i].children[j].fullPath \in Range(currentTimezones)

\* the rows a flat view must show: every area header, and the children of the
\* expanded areas only
VisibleRows(tr) ==
    {[areaIdx |-> i - 1, childIdx |-> -1] : i \in 1..Len(tr)}
    \cup UNION {{[areaIdx |-> i - 1, childIdx |-> j - 1] : j \in 1..Len(tr[i].children)} :
                  i \in {k \in 1..Len(tr) : tr[k].expanded}}

\* row a comes before row b: area order, the header first, then child order
RowBefore(a, b) ==
    a.areaIdx < b.areaIdx \/ (a.areaIdx = b.areaIdx /\ a.childIdx < b.childIdx)

\* C5: the stored flat view is the flattening of the forest under the current
\* expansion flags: exactly the visible rows, each once, in forest order.
C5_FlatViewConsistent ==
    /\ Range(flatTree) = VisibleRows(tree)
    /\ \A a, b \in 1..Len(flatTree) : a < b => RowBefore(flatTree[a], flatTree[b])

\* C5 witness: outside search mode, the System area, expanded at construction,
\* is collapsed, both catalog areas are expanded and the cursor is on the last row.
C5_Witness ==
    /\ ~searchMode
    /\ Len(tree) = 3
    /\ ~tree[1].expanded
    /\ tree[2].expanded
    /\ tree[3].expanded
    /\ treeCursor = Len(flatTree) - 1

\* C6: treeCursor is a valid index of the flat view in every reachable state.
C6_TreeCursorValid == treeCursor \in 0..(Len(flatTree) - 1)

\* C6 witness: the cursor is on the last row and Enter shortens the view in front
\* of it, so that the cursor is pulled back onto the new last row.
C6_Witness ==
    /\ treeCursor = Len(flatTree) - 1
    /\ ENABLED (KeyEnter /\ Len(flatTree') < Len(flatTree)
                         /\ treeCursor' = Len(flatTree') - 1)

C7_UpKey == KeyUp \/ KeyShiftUp \/ SearchUp
C7_DownKey == KeyDown \/ KeyShiftDown \/ SearchDown

C7_Step ==
    /\ (C7_UpKey \/ C7_DownKey) =>
          /\ CursorOK(selectedCursor, Len(selected)) =>
                CursorOK(selectedCursor', Len(selected')) /\ ~panicked'
          /\ CursorOK(treeCursor, Len(flatTree)) => CursorOK(treeCursor', Len(flatTree'))
          /\ CursorOK(searchCursor, Len(searchResults)) =>
                CursorOK(searchCursor', Len(searchResults'))
    /\ C7_UpKey =>
          /\ selectedCursor = 0 => selectedCursor' = 0
          /\ treeCursor = 0 => treeCursor' = 0
          /\ searchCursor = 0 => searchCursor' = 0
    /\ C7_DownKey =>
          /\ selectedCursor = Len(selected) - 1 \/ Len(selected) = 0 =>
                selectedCursor' = selectedCursor
          /\ treeCursor = Len(flatTree) - 1 => treeCursor' = treeCursor
          /\ searchCursor = Len(searchResults) - 1 \/ Len(searchResults) = 0 =>
                searchCursor' = searchCursor

\* C7: cursor movement is clamped and never wraps: a move command taken with a
\* cursor inside its collection leaves the cursor inside it (0 on an empty
\* collection), and a move past the first or last element leaves it unchanged.
C7_MovementClamped == [][C7_Step]_vars

\* C7 witness: the selected pane is focused with the cursor on the last of several
\* entries, and Down leaves it there.
C7_Witness ==
    /\ focusedPane = selectedPane
    /\ Len(selected) >= 2
    /\ selectedCursor = Len(selected) - 1
    /\ ENABLED (KeyDown /\ selectedCursor' = selectedCursor)

C8_QueryStep == KeySearch \/ SearchBackspace \/ (\E r \in QueryRunes : SearchRunes(r))

\* C8 as stated: after search entry and after any query edit,
\* searchCursor < len(matches).
C8_CursorBelowCount == [][C8_QueryStep => searchCursor' < Len(searchResults')]_vars

\* C8 as amended: after search entry and after any query edit, searchCursor is
\* below the match count when there are matches and is 0 when there are none.
C8_CursorUsable ==
    [][C8_QueryStep => CursorOK(searchCursor', Len(searchResults'))]_vars

\* C8 witness: the search cursor is past the first match and typing a rune leaves
\* a shorter, non-empty match list, on which the cursor is reset to 0.
C8_Witness ==
    /\ searchMode
    /\ searchCursor > 0
    /\ ENABLED ((\E r \in QueryRunes : SearchRunes(r))
                /\ Len(searchResults') > 0
                /\ Len(searchResults') <= searchCursor
                /\ searchCursor' = 0)

\* a step that leaves search mode through exitSearchMode(false): Escape, or Enter
\* with no match under the search cursor
CancelStep ==
    \/ SearchEscape
    \/ SearchEnter /\ ~(Len(searchResults) > 0 /\ searchCursor < Len(searchResults))

\* C9: cancelling a search leaves every area's expanded flag at the value it had
\* when the search was entered.
C9_CancelRestoresExpansion == [][CancelStep => expandedOf(tree') = atEntry.expanded]_vars

\* C9 witness: a search entered with both expanded and collapsed areas, in which a
\* query was typed and a match toggled, is about to be cancelled.
C9_Witness ==
    /\ searchMode
    /\ Len(searchQuery) > 0
    /\ ~atEntry.pure
    /\ TRUE \in Range(atEntry.expanded)
    /\ FALSE \in Range(atEntry.expanded)
    /\ ENABLED (SearchEscape /\ expandedOf(tree') = atEntry.expanded)

\* C10: a search in which only the query was edited and the search cursor moved,
\* then cancelled, leaves treeCursor, selectedCursor, focusedPane, the flat view
\* and the selection list as they were when the search was entered.
C10_CancelKeepsNavigation ==
    [][CancelStep /\ atEntry.pure =>
          /\ treeCursor' = atEntry.treeCursor
          /\ selectedCursor' = atEntry.selectedCursor
          /\ focusedPane' = atEntry.focusedPane
          /\ flatTree' = atEntry.flatTree
          /\ selected' = atEntry.selected]_vars

\* C10 witness: a search with a typed query and a moved search cursor, entered
\* from the selected pane with both cursors off their first rows, is about to be
\* cancelled.
C10_Witness ==
    /\ searchMode
    /\ atEntry.pure
    /\ Len(searchQuery) > 0
    /\ searchCursor > 0
    /\ atEntry.focusedPane = selectedPane
    /\ atEntry.treeCursor > 0
    /\ atEntry.selectedCursor > 0
    /\ ENABLED (SearchEscape /\ flatTree' = atEntry.flatTree /\ treeCursor' = atEntry.treeCursor)

\* flat is the flattening of tr: exactly the visible rows, each once, in forest order
IsFlatViewOf(flat, tr) ==
    /\ Range(flat) = VisibleRows(tr)
    /\ \A a, b \in 1..Len(flat) : a < b => RowBefore(flat[a], flat[b])

\* a step that commits the match under the search cursor
CommitStep == SearchEnter /\ Len(searchResults) > 0 /\ searchCursor < Len(searchResults)

\* C11: committing a search with a match under the search cursor leaves normal
\* mode; the area that holds the match is expanded and every other area keeps its
\* live expanded flag (the snapshot is dropped, not applied); the flat view is the
\* flattening of the new forest, the row under treeCursor is the match's
\* (areaIdx, childIdx) and the available pane is focused.
C11_SearchCommit ==
    [][CommitStep =>
          LET match == searchResults[searchCursor + 1]
          IN  /\ ~searchMode'
              /\ tree[match.areaIdx + 1].children[match.childIdx + 1].fullPath = match.fullPath
              /\ tree'[match.areaIdx + 1].expanded
              /\ \A i \in 1..Len(tree) :
                    i # match.areaIdx + 1 => tree'[i].expanded = tree[i].expanded
              /\ preSearchExpanded' = NilMap
              /\ IsFlatViewOf(flatTree', tree')
              /\ treeCursor' \in 0..(Len(flatTree') - 1)
              /\ flatTree'[treeCursor' + 1] =
                    [areaIdx |-> match.areaIdx, childIdx |-> match.childIdx]
              /\ focusedPane' = availablePane]_vars

\* C11 witness: a search entered from the selected pane has its cursor on a second
\* match that lies in a collapsed area, and Enter expands that area, moves the
\* tree cursor and focuses the available pane.
C11_Witness ==
    /\ searchMode
    /\ focusedPane = selectedPane
    /\ searchCursor > 0
    /\ searchCursor < Len(searchResults)
    /\ ~tree[searchResults[searchCursor + 1].areaIdx + 1].expanded
    /\ ENABLED (SearchEnter /\ focusedPane' = availablePane /\ treeCursor' # treeCursor
                            /\ Len(flatTree') > Len(flatTree))

\* the available pane is focused and the tree cursor is on an area header
onAreaHeader ==
    /\ focusedPane = availablePane
    /\ ~nodeIsNil(flatTree, treeCursor)
    /\ isArea(flatTree[treeCursor + 1])

\* the available pane is focused and the tree cursor is on a location
onLocation ==
    /\ focusedPane = availablePane
    /\ ~nodeIsNil(flatTree, treeCursor)
    /\ ~isArea(flatTree[treeCursor + 1])

\* the fullPaths of the children of the area the tree cursor's row belongs to
kidsUnderCursor ==
    LET area == tree[flatTree[treeCursor + 1].areaIdx + 1]
    IN  {area.children[j].fullPath : j \in 1..Len(area.children)}

\* the fullPath of the location under the tree cursor
locationUnderCursor ==
    tree[flatTree[treeCursor + 1].areaIdx + 1].children[flatTree[treeCursor + 1].childIdx + 1].fullPath

\* the entries of sel outside S, in their order
Without(sel, S) == SelectSeq(sel, LAMBDA x : x \notin S)

\* C12: with the available pane focused and the tree cursor on the header of an
\* area none of whose children is selected, one ToggleSelection selects every
\* child of the area and a second one on the same area deselects every child;
\* the entries that are not children of the area keep their presence and their
\* relative order through both.
C12_AreaToggleAllOrNothing ==
    [][KeySpace /\ onAreaHeader /\ kidsUnderCursor \cap Range(selected) = {} =>
          \A kids \in {kidsUnderCursor} : \A orig \in {selected} :
              /\ kids \subseteq Range(selected')
              /\ Without(selected', kids) = orig
              /\ (ENABLED (/\ KeySpace
                           /\ kids \cap Range(selected') = {}
                           /\ selected' = orig))']_vars

\* C12 witness: the cursor is on the header of an area with two children, none
\* selected, while another location is selected, and Space selects both.
C12_Witness ==
    /\ onAreaHeader
    /\ Cardinality(kidsUnderCursor) = 2
    /\ kidsUnderCursor \cap Range(selected) = {}
    /\ Len(selected) > 0
    /\ ENABLED (KeySpace /\ Len(selected') = Len(selected) + 2)

\* the entries a toggle appended to a list that had n entries
appended(sel, n) == SubSeq(sel, n + 1, Len(sel))

\* the position of tz in the catalog
catalogPos(tz) == CHOOSE i \in 1..Len(timezonesAll) : timezonesAll[i] = tz

\* a step that toggles an area with at least one child not selected
C13_CompletingStep == KeySpace /\ onAreaHeader /\ ~(kidsUnderCursor \subseteq Range(selected))

\* what C13 says of such a step whatever the order: the existing entries stay in
\* place and exactly the children not yet selected are appended, each once
C13_Completes ==
    /\ Len(selected') >= Len(selected)
    /\ SubSeq(selected', 1, Len(selected)) = selected
    /\ NoDuplicates(appended(selected', Len(selected)))
    /\ Range(appended(selected', Len(selected))) = kidsUnderCursor \ Range(selected)

\* C13 as stated: ToggleSelection on a partially selected area keeps every
\* existing entry at its position and appends exactly the children not yet
\* selected, in the order they have in the catalog.
C13_AppendsInCatalogOrder ==
    [][C13_CompletingStep =>
          /\ C13_Completes
          /\ LET app == appended(selected', Len(selected))
             IN  \A a, b \in 1..Len(app) : a < b => catalogPos(app[a]) < catalogPos(app[b])]_vars

\* C13 as amended: ToggleSelection on a partially selected area keeps every
\* existing entry at its position and appends exactly the children not yet
\* selected, in the order of the area's children in the tree, which is the
\* lexicographic order of their location names.
C13_AppendsInChildOrder ==
    [][C13_CompletingStep =>
          /\ C13_Completes
          /\ LET app == appended(selected', Len(selected))
             IN  \A a, b \in 1..Len(app) :
                     a < b => StrLess(LocationOf(app[a]), LocationOf(app[b]))]_vars

\* C13 witness: the cursor is on the header of an area whose two children are
\* listed in the catalog against the order of their names; one of them is not
\* selected while other entries are, and Space appends it.
C13_Witness ==
    /\ onAreaHeader
    /\ flatTree[treeCursor + 1].areaIdx > 0
    /\ Len(selected) > 0
    /\ \E x, y \in kidsUnderCursor :
          /\ catalogPos(x) < catalogPos(y)
          /\ StrLess(LocationOf(y), LocationOf(x))
          /\ x \in Range(selected)
          /\ y \notin Range(selected)
    /\ ENABLED (KeySpace /\ Len(selected') = Len(selected) + 1
                         /\ SubSeq(selected', 1, Len(selected)) = selected)

\* the number of entries of sel equal to tz
count(sel, tz) == Cardinality({i \in 1..Len(sel) : sel[i] = tz})

\* res is what two toggles of L leave of orig: orig itself if L was absent, and
\* otherwise orig with L moved to the last position
ToggledTwice(orig, L, res) ==
    /\ L \notin Range(orig) => res = orig
    /\ L \in Range(orig) =>
          /\ Len(res) = Len(orig)
          /\ Range(res) = Range(orig)
          /\ Without(res, {L}) = Without(orig, {L})
          /\ res[Len(res)] = L

RemoveStep == (KeyDelete \/ KeySpace) /\ focusedPane = selectedPane

\* C16: removeSelected with a valid selectedCursor c removes exactly the entry at
\* c and keeps the others in order; the cursor stays at c unless c was the last
\* index, and then becomes the new last index (0 when the list is now empty); on
\* an empty list the command changes nothing.
C16_RemoveAtCursor ==
    [][RemoveStep =>
          /\ selectedCursor \in 0..(Len(selected) - 1) =>
                /\ Len(selected') = Len(selected) - 1
                /\ \A i \in 1..Len(selected') :
                      selected'[i] = IF i <= selectedCursor THEN selected[i] ELSE selected[i + 1]
                /\ selectedCursor' =
                      IF selectedCursor < Len(selected) - 1 THEN selectedCursor
                      ELSE IF Len(selected') = 0 THEN 0
                      ELSE Len(selected') - 1
          /\ Len(selected) = 0 => UNCHANGED vars]_vars

\* C16 witness: the selected pane is focused with the cursor on the last of three
\* entries, and Delete removes it and pulls the cursor back.
C16_Witness ==
    /\ focusedPane = selectedPane
    /\ Len(selected) = 3
    /\ selectedCursor = 2
    /\ ENABLED (KeyDelete /\ selected' = SubSeq(selected, 1, 2) /\ selectedCursor' = 1)

\* the step exchanges the entry under the cursor with the one d positions away
\* (d = -1: the upper neighbour, d = 1: the lower one) and the cursor follows it
Exchanges(d) ==
    /\ focusedPane = selectedPane
    /\ selectedCursor \in 0..(Len(selected) - 1)
    /\ (selectedCursor + d) \in 0..(Len(selected) - 1)
    /\ selectedCursor' = selectedCursor + d
    /\ Len(selected') = Len(selected)
    /\ selected'[selectedCursor' + 1] = selected[selectedCursor + 1]
    /\ selected'[selectedCursor + 1] = selected[selectedCursor' + 1]
    /\ \A i \in 1..Len(selected) :
          i \notin {selectedCursor + 1, selectedCursor' + 1} => selected'[i] = selected[i]
    /\ UNCHANGED <<tree, flatTree, focusedPane, treeCursor, searchVars, quitting, saved,
                   panicked>>

\* what C17 says of a reorder step towards d: it is an exchange or it changes
\* nothing; it is an exchange at a valid position that has a neighbour at d in the
\* selected pane, and it changes nothing in the available pane and where the
\* cursor is on the first (d = -1) or last (d = 1) entry
ReorderOK(d) ==
    /\ Exchanges(d) \/ UNCHANGED vars
    /\ (/\ focusedPane = selectedPane
        /\ selectedCursor \in 0..(Len(selected) - 1)
        /\ (selectedCursor + d) \in 0..(Len(selected) - 1)) => Exchanges(d)
    /\ (\/ focusedPane = availablePane
        \/ d = -1 /\ selectedCursor = 0
        \/ d = 1 /\ selectedCursor = Len(selected) - 1) => UNCHANGED vars

\* C17: MoveSelectedUp (MoveSelectedDown) exchanges the entry under selectedCursor
\* with its upper (lower) neighbour in the selected pane only, the cursor follows
\* the entry and every other position is unchanged; at the first (last) position
\* and in the available pane it changes neither the list nor any cursor.
C17_Reorder ==
    [][(KeyShiftUp => ReorderOK(-1)) /\ (KeyShiftDown => ReorderOK(1))]_vars

\* the location nodes of the forest whose fullPath contains query, letter case
\* ignored, as (areaIdx, childIdx) coordinates
Hits(tr, query) ==
    UNION {{[areaIdx |-> i - 1, childIdx |-> j - 1] :
               j \in {k \in 1..Len(tr[i].children) :
                         Contains(ToLower(tr[i].children[k].fullPath), ToLower(query))}} :
           i \in 1..Len(tr)}

\* the coordinate a match carries
coordOf(match) == [areaIdx |-> match.areaIdx, childIdx |-> match.childIdx]

\* C15: for a non-empty query the match list is exactly the location nodes (the
\* System area's Local among them, never an area header) whose fullPath, area
\* prefix included, contains the query ignoring letter case; each appears once,
\* in forest traversal order, with its fullPath and its coordinate.
C15_SearchResult ==
    searchMode /\ searchQuery # <<>> =>
        /\ {coordOf(searchResults[k]) : k \in 1..Len(searchResults)} = Hits(tree, searchQuery)
        /\ \A a, b \in 1..Len(searchResults) :
              a < b => RowBefore(coordOf(searchResults[a]), coordOf(searchResults[b]))
        /\ \A k \in 1..Len(searchResults) :
              /\ searchResults[k].childIdx >= 0
              /\ searchResults[k].fullPath =
                    tree[searchResults[k].areaIdx + 1].children[searchResults[k].childIdx
                                                                + 1].fullPath

\* C15 witness: over a catalog that lists E/LL, A/ll and A/cl, the query "A"
\* matches Local, A/cl and A/ll, in that order, and not E/LL.
C15_Witness ==
    /\ timezonesAll = <<tzELL, tzAll, tzAcl>>
    /\ searchMode
    /\ searchQuery = <<"A">>
    /\ [k \in 1..Len(searchResults) |-> searchResults[k].fullPath] = <<LocalName, tzAcl, tzAll>>

\* the number of rows a forest must show from area i on (0-based): one per area
\* and one per child of an expanded area
RECURSIVE RowCount(_, _)
RowCount(tr, i) ==
    IF i >= Len(tr) THEN 0
    ELSE 1 + (IF tr[i + 1].expanded THEN Len(tr[i + 1].children) ELSE 0) + RowCount(tr, i + 1)

\* the step changes the expanded flag of area a (1-based) from from to ~from and
\* of no other area
FlipsOnly(a, from) ==
    /\ tree[a].expanded = from
    /\ expandedOf(tree') = [expandedOf(tree) EXCEPT ![a] = ~from]

\* what C18 says of a step: collapsing one expanded area shortens the view by the
\* area's child count, expanding one lengthens it by as much, and after a
\* collapse through Enter on the area's own header a second Enter restores the
\* identical view
C18_Step ==
    \A a \in 1..Len(tree) :
        /\ FlipsOnly(a, TRUE) => Len(flatTree') = Len(flatTree) - Len(tree[a].children)
        /\ FlipsOnly(a, FALSE) => Len(flatTree') = Len(flatTree) + Len(tree[a].children)
        /\ (/\ KeyEnter
            /\ FlipsOnly(a, TRUE)
            /\ flatTree[treeCursor + 1] = [areaIdx |-> a - 1, childIdx |-> -1]) =>
               \A old \in {flatTree} : (ENABLED (KeyEnter /\ flatTree' = old))'

\* C18: the flat view has one row per area plus one per child of every expanded
\* area, whatever the catalog and the expansion flags; collapsing one expanded
\* area shortens it by exactly that area's child count and expanding the area
\* again restores the identical view.
C18_FlattenedLength ==
    /\ [](Len(flatTree) = RowCount(tree, 0))
    /\ [][C18_Step]_vars

\* C18 witness: the cursor is on the header of an expanded area with two
\* children, another area is collapsed and a third expanded, and Enter collapses
\* the area and shortens the view by two rows.
C18_Witness ==
    /\ onAreaHeader
    /\ Len(tree) = 3
    /\ tree[1].expanded
    /\ ~tree[3].expanded
    /\ flatTree[treeCursor + 1].areaIdx = 1
    /\ tree[2].expanded
    /\ Len(tree[2].children) = 2
    /\ ENABLED (KeyEnter /\ ~tree'[2].expanded /\ Len(flatTree') = Len(flatTree) - 2)

\* the catalog entries that name an area
withArea(timezones) ==
    {i \in 1..Len(timezones) : Contains(timezones[i], <<"/">>)}

\* C19: the first root of the forest is the System area with the single child
\* Local; the other roots are the distinct area prefixes of the catalog entries
\* that contain a "/", in lexicographic order of area name; the children of each
\* are exactly its catalog entries, in lexicographic order of location name;
\* catalog entries without a "/" produce no node.
C19_TreeConstruction ==
    /\ Len(tree) >= 1
    /\ tree[1].name = SystemName
    /\ Len(tree[1].children) = 1
    /\ tree[1].children[1].name = LocalName
    /\ tree[1].children[1].fullPath = LocalName
    /\ {tree[i].name : i \in 2..Len(tree)} =
          {AreaOf(timezonesAll[k]) : k \in withArea(timezonesAll)}
    /\ \A i, j \in 2..Len(tree) : i < j => StrLess(tree[i].name, tree[j].name)
    /\ \A i \in 2..Len(tree) :
          /\ \A j \in 1..Len(tree[i].children) :
                /\ Contains(tree[i].children[j].fullPath, <<"/">>)
                /\ AreaOf(tree[i].children[j].fullPath) = tree[i].name
                /\ LocationOf(tree[i].children[j].fullPath) = tree[i].children[j].name
          /\ \A k \in withArea(timezonesAll) :
                AreaOf(timezonesAll[k]) = tree[i].name =>
                    Cardinality({j \in 1..Len(tree[i].children) :
                                    tree[i].children[j].fullPath = timezonesAll[k]})
                    = count(timezonesAll, timezonesAll[k])
          /\ \A j \in 1..Len(tree[i].children) :
                tree[i].children[j].fullPath \in Range(timezonesAll)
          /\ \A a, b \in 1..Len(tree[i].children) :
                a < b => ~StrLess(tree[i].children[b].name, tree[i].children[a].name)

\* C19 witness: the catalog lists E/LL, A/ll and A/cl; the forest is System, A
\* with the children cl and ll, and E.
C19_Witness ==
    /\ timezonesAll = <<tzELL, tzAll, tzAcl>>
    /\ Len(tree) = 3
    /\ tree[2].name = <<"A">>
    /\ tree[2].children[1].fullPath = tzAcl
    /\ tree[2].children[2].fullPath = tzAll
    /\ tree[3].name = <<"E">>

\* the expansion flags initWizardModel must leave: System expanded, and every
\* other area expanded exactly when one of its children is in the caller's list
C20_AtStart ==
    /\ tree[1].expanded
    /\ \A i \in 2..Len(tree) :
          tree[i].expanded <=>
              \E j \in 1..Len(tree[i].children) :
                  tree[i].children[j].fullPath \in Range(currentTimezones)

\* C20: in the state initWizardModel leaves, the first of a behaviour, the System
\* area is expanded and every other area is expanded if and only if at least one
\* of its children is in the initial selection.
C20_InitialExpansion == C20_AtStart /\ [][TRUE]_vars

\* C20 witness: the session of catalog [A/ll, A/cl, E/LL] and initial selection
\* [A/ll] starts with A expanded and E collapsed.
C20_Witness ==
    /\ timezonesAll = <<tzAll, tzAcl, tzELL>>
    /\ currentTimezones = <<tzAll>>
    /\ selected = currentTimezones
    /\ treeCursor = 0
    /\ ~searchMode
    /\ atEntry = NoEntry
    /\ tree[1].expanded
    /\ tree[2].name = <<"A">> /\ tree[2].expanded
    /\ tree[3].name = <<"E">> /\ ~tree[3].expanded

\* the commands that are no toggle, removal or reorder: cursor moves, SwitchPane,
\* ToggleExpand, EnterSearch, query edits, search cancel and commit
C21_OtherCommand ==
    \/ KeyUp \/ KeyDown \/ KeyTab \/ KeyEnter \/ KeySearch
    \/ SearchUp \/ SearchDown \/ SearchBackspace \/ (\E r \in QueryRunes : SearchRunes(r))
    \/ SearchEscape \/ SearchEnter

\* C21: every command other than ToggleSelection, RemoveSelected, MoveSelectedUp
\* and MoveSelectedDown leaves the selection list unchanged, element for element
\* and in order.
C21_SelectionOrderKept == [][C21_OtherCommand => selected' = selected]_vars

\* C21 witness: the selection holds two entries against the order of their names,
\* a search has a match under its cursor, and Enter commits it and leaves the
\* list as it is.
C21_Witness ==
    /\ Len(selected) = 2
    /\ StrLess(selected[2], selected[1])
    /\ searchMode
    /\ searchCursor < Len(searchResults)
    /\ searchResults[searchCursor + 1].fullPath \notin Range(selected)
    /\ ENABLED (SearchEnter /\ selected' = selected /\ treeCursor' # treeCursor)

\* C22: the selection list starts as a copy of the caller's list; a quit command
\* taken in normal mode sets quitting and saved together and what runWizard hands
\* back is the selection list at that moment, in its order; no reachable state
\* has quitting without saved.
C22_SessionResult ==
    /\ selected = currentTimezones
    /\ [](quitting => saved)
    /\ [][KeyQuit => quitting' /\ saved' /\ runWizardResult' = selected]_vars

\* C22 witness: the program has quit with a non-empty selection list that is not
\* the caller's, and runWizard hands it back.
C22_Witness ==
    /\ quitting
    /\ Len(selected) >= 2
    /\ selected # currentTimezones
    /\ runWizardResult = selected

\* C23: in normal mode with the selected pane focused, ToggleSelection and
\* RemoveSelected lead from every state, an empty selection included, to the same
\* state.
C23_ToggleIsRemove == [][focusedPane = selectedPane => (KeySpace <=> KeyDelete)]_vars

\* C23 witness: the selected pane is focused with the cursor on the second of
\* three entries, and Space removes that entry.
C23_Witness ==
    /\ focusedPane = selectedPane
    /\ ~searchMode
    /\ Len(selected) = 3
    /\ selectedCursor = 1
    /\ ENABLED (KeySpace /\ selected' = <<selected[1], selected[3]>>)

\* res is sel with exactly one occurrence of tz taken out, the rest in place
OneRemoved(sel, tz, res) ==
    \E i \in 1..Len(sel) :
        /\ sel[i] = tz
        /\ res = [k \in 1..(Len(sel) - 1) |-> IF k < i THEN sel[k] ELSE sel[k + 1]]

\* every isSelected flag of tr tells membership in sel
FlagsSynced(tr, sel) ==
    \A a \in 1..Len(tr) : \A c \in 1..Len(tr[a].children) :
        tr[a].children[c].isSelected <=> (tr[a].children[c].fullPath \in Range(sel))

\* the match list without its isSelected marks
MatchPlaces(results) ==
    [k \in 1..Len(results) |->
        <<results[k].fullPath, results[k].areaIdx, results[k].childIdx>>]

\* the search-mode toggle of the match with path tz
C24_ToggleStep(tz) ==
    /\ IF tz \in Range(selected)
       THEN OneRemoved(selected, tz, selected')
       ELSE selected' = Append(selected, tz)
    /\ FlagsSynced(tree', selected')
    /\ \A k \in 1..Len(searchResults') :
          searchResults'[k].isSelected <=> (searchResults'[k].fullPath \in Range(selected'))
    /\ MatchPlaces(searchResults') = MatchPlaces(searchResults)
    /\ expandedOf(tree') = expandedOf(tree)
    /\ UNCHANGED <<searchQuery, searchCursor, treeCursor>>

\* C24: in search mode with a non-empty match list Space acts only on the match
\* under searchCursor: its path is appended to the selection if absent and taken
\* out if present, no other entry changes, the tree flags and the match list's
\* marks tell the new membership, and the query, the matches' paths and order,
\* both cursors and all expansion flags stay; with no match nothing changes.
C24_SearchToggle ==
    [][SearchSpace =>
         IF Len(searchResults) > 0
         THEN /\ searchCursor < Len(searchResults)
              /\ C24_ToggleStep(searchResults[searchCursor + 1].fullPath)
         ELSE UNCHANGED vars]_vars

\* C24 witness: the second match of a search is in a selection of several
\* entries, and Space takes it out and clears its mark in the refreshed list.
C24_Witness ==
    /\ searchMode
    /\ searchCursor = 1
    /\ Len(searchResults) >= 2
    /\ Len(selected) >= 2
    /\ searchResults[2].isSelected
    /\ ENABLED (SearchSpace /\ Len(selected') = Len(selected) - 1
                            /\ ~searchResults'[2].isSelected
                            /\ searchResults'[1] = searchResults[1])

\* C25: exactly one of the two panes is focused in every state; Tab in normal
\* mode moves the focus from the selected pane to the available pane and back,
\* leaving the selection, the tree, both cursors and the mode unchanged, and a
\* second Tab restores the state the first one started from.
C25_SwitchPane ==
    /\ [](focusedPane \in {selectedPane, availablePane})
    /\ [][KeyTab =>
            /\ focusedPane = selectedPane => focusedPane' = availablePane
            /\ focusedPane = availablePane => focusedPane' = selectedPane
            /\ UNCHANGED <<selected, tree, flatTree, selectedCursor, treeCursor, searchMode>>
            /\ \A orig \in {vars} : (ENABLED (KeyTab /\ vars' = orig))']_vars

\* C25 witness: the available pane is focused with both cursors away from the
\* top, and Tab moves the focus to the selected pane.
C25_Witness ==
    /\ ~searchMode
    /\ focusedPane = availablePane
    /\ treeCursor > 0
    /\ selectedCursor > 0
    /\ ENABLED (KeyTab /\ focusedPane' = selectedPane /\ treeCursor' = treeCursor)

\* the forest without its flags: areas in order with name and fullPath, each
\* with its children in order with name and fullPath
Structure(tr) ==
    [a \in 1..Len(tr) |->
        [name |-> tr[a].name,
         fullPath |-> tr[a].fullPath,
         children |-> [c \in 1..Len(tr[a].children) |->
                          [name |-> tr[a].children[c].name,
                           fullPath |-> tr[a].children[c].fullPath]]]]

\* C26: in every reachable state the areas, their names and paths and their
\* children's names and paths are, in order, those built at the start of the
\* session, and the first root is the System area with the single child Local:
\* commands change nothing of the tree but expanded and isSelected flags.
C26_TreeShapeFixed ==
    /\ Structure(tree) = Structure(buildTree(timezonesAll, currentTimezones))
    /\ Structure(tree)[1] =
          [name |-> SystemName, fullPath |-> SystemName,
           children |-> <<[name |-> LocalName, fullPath |-> LocalName]>>]

\* C26 witness: after toggles and a collapse the tree differs from the one built
\* at the start in an expanded flag and in an isSelected flag, and in its shape
\* not at all.
C26_Witness ==
    /\ Len(tree) >= 2
    /\ expandedOf(tree) # expandedOf(buildTree(timezonesAll, currentTimezones))
    /\ \E a \in 1..Len(tree) : \E c \in 1..Len(tree[a].children) :
          tree[a].children[c].isSelected
             # buildTree(timezonesAll, currentTimezones)[a].children[c].isSelected
    /\ Structure(tree) = Structure(buildTree(timezonesAll, currentTimezones))

\* the isSelected flags of the forest, area by area
selectedFlagsOf(tr) ==
    [a \in 1..Len(tr) |-> [c \in 1..Len(tr[a].children) |-> tr[a].children[c].isSelected]]

\* C27: Enter with the available pane focused and the tree cursor on the header
\* of area a flips the expanded flag of a and of no other area, whatever the
\* catalog (one with an area named like the System area included), leaves the
\* selection, the isSelected flags, selectedCursor and the focus unchanged, and
\* leaves the tree cursor on the header of a.
C27_ToggleExpandOne ==
    [][KeyEnter /\ onAreaHeader =>
         LET a == flatTree[treeCursor + 1].areaIdx + 1
         IN  /\ expandedOf(tree') = [expandedOf(tree) EXCEPT ![a] = ~tree[a].expanded]
             /\ selectedFlagsOf(tree') = selectedFlagsOf(tree)
             /\ UNCHANGED <<selected, selectedCursor, focusedPane>>
             /\ ~nodeIsNil(flatTree', treeCursor')
             /\ flatTree'[treeCursor' + 1] = flatTree[treeCursor + 1]]_vars

\* C28: Enter changes no expansion flag, nor the flat view, nor the tree cursor
\* when the tree cursor is on a location row or outside the flat view, and when
\* the selected pane is focused.
C28_ToggleExpandNoOp ==
    [][KeyEnter /\ (\/ focusedPane = selectedPane
                    \/ treeCursor < 0
                    \/ treeCursor >= Len(flatTree)
                    \/ flatTree[treeCursor + 1].childIdx >= 0) =>
         /\ expandedOf(tree') = expandedOf(tree)
         /\ flatTree' = flatTree
         /\ treeCursor' = treeCursor]_vars

\* C28 witness: the selected pane is focused while the tree cursor is on the
\* header of an expanded area below the System area, and Enter leaves the tree
\* and the flat view as they are.
C28_Witness ==
    /\ ~searchMode
    /\ focusedPane = selectedPane
    /\ treeCursor < Len(flatTree)
    /\ flatTree[treeCursor + 1].childIdx = -1
    /\ flatTree[treeCursor + 1].areaIdx > 0
    /\ tree[flatTree[treeCursor + 1].areaIdx + 1].expanded
    /\ ENABLED (KeyEnter /\ tree' = tree /\ flatTree' = flatTree)

\* C29: a toggle of a location, of an area, of a search match and a removal
\* leave every area's expanded flag, the flat view and the tree cursor unchanged;
\* an area that gains its first selected child stays collapsed.
C29_ToggleKeepsView ==
    [][KeySpace \/ KeyDelete \/ SearchSpace =>
         /\ expandedOf(tree') = expandedOf(tree)
         /\ flatTree' = flatTree
         /\ treeCursor' = treeCursor]_vars

\* C29 witness: the tree cursor is on the header of a collapsed area with no
\* selected child, and Space selects its children and leaves it collapsed.
C29_Witness ==
    /\ ~searchMode
    /\ onAreaHeader
    /\ ~tree[flatTree[treeCursor + 1].areaIdx + 1].expanded
    /\ countSelectedInArea(tree[flatTree[treeCursor + 1].areaIdx + 1], selected) = 0
    /\ ENABLED (KeySpace
                  /\ countSelectedInArea(tree'[flatTree[treeCursor + 1].areaIdx + 1], selected') > 0
                  /\ ~tree'[flatTree[treeCursor + 1].areaIdx + 1].expanded)

\* the effect of EnterSearch
C30_EnterStep ==
    /\ searchMode'
    /\ ~preSearchExpanded'.isNil
    /\ DOMAIN preSearchExpanded'.m = 0..(Len(tree) - 1)
    /\ \A i \in 0..(Len(tree) - 1) : preSearchExpanded'.m[i] = tree[i + 1].expanded
    /\ searchQuery' = <<>>
    /\ searchResults' = <<>>
    /\ searchCursor' = 0
    /\ UNCHANGED <<tree, flatTree, selected, treeCursor, selectedCursor, focusedPane>>

\* C30: EnterSearch sets search mode, records every area's expanded flag in the
\* snapshot, empties the query and the matches and sets searchCursor to 0,
\* leaving the tree, the selection, both cursors and the focus unchanged; in
\* every reachable state the snapshot exists exactly when the mode is search,
\* and while it exists it has one entry per area.
C30_SearchEntry ==
    /\ [](preSearchExpanded.isNil <=> ~searchMode)
    /\ [](~preSearchExpanded.isNil => DOMAIN preSearchExpanded.m = 0..(Len(tree) - 1))
    /\ [][KeySearch => C30_EnterStep]_vars

\* C30 witness: in normal mode, with the selected pane focused, both cursors away
\* from the top and areas both expanded and collapsed, "/" enters search mode and
\* the snapshot records a collapsed area as collapsed.
C30_Witness ==
    /\ ~searchMode
    /\ preSearchExpanded.isNil
    /\ focusedPane = selectedPane
    /\ treeCursor > 0
    /\ selectedCursor > 0
    /\ Len(tree) >= 3
    /\ tree[2].expanded
    /\ ~tree[3].expanded
    /\ ENABLED (KeySearch /\ preSearchExpanded'.m[1] /\ ~preSearchExpanded'.m[2])

\* C31: in every reachable state an empty query comes with an empty match list
\* and searchCursor = 0, also after a query was backspaced down to empty, and in
\* normal mode (at the start, after cancel, after commit) the query and the
\* match list are empty and searchCursor = 0.
C31_SearchStateCleared ==
    /\ searchQuery = <<>> => searchResults = <<>> /\ searchCursor = 0
    /\ ~searchMode => searchQuery = <<>> /\ searchResults = <<>> /\ searchCursor = 0

\* C31 witness: a one-rune query has several matches with the search cursor past
\* the first, and Backspace empties the query, the match list and the cursor.
C31_Witness ==
    /\ searchMode
    /\ Len(searchQuery) = 1
    /\ Len(searchResults) >= 2
    /\ searchCursor > 0
    /\ ENABLED (SearchBackspace /\ searchQuery' = <<>> /\ searchResults' = <<>>
                                /\ searchCursor' = 0)

\* C32: leaving search mode with keepExpansion = true, as the commit of a match
\* does after expanding the match's area, leaves every area's expanded flag at
\* its live value and drops the snapshot unapplied: the area expanded for the
\* match is expanded afterwards even though the snapshot holds it collapsed.
C32_KeepExpansion ==
    [][CommitStep =>
         LET a == searchResults[searchCursor + 1].areaIdx
         IN  /\ expandedOf(tree') = [expandedOf(tree) EXCEPT ![a + 1] = TRUE]
             /\ preSearchExpanded' = NilMap
             /\ expandedOf(treeAfterExit(tree, preSearchExpanded, TRUE)) = expandedOf(tree)]_vars

\* C32 witness: the match under the search cursor lies in an area that is
\* collapsed and that the snapshot holds as collapsed, and Enter leaves search
\* mode with that area expanded.
C32_Witness ==
    /\ searchMode
    /\ searchCursor < Len(searchResults)
    /\ ~tree[searchResults[searchCursor + 1].areaIdx + 1].expanded
    /\ ~preSearchExpanded.m[searchResults[searchCursor + 1].areaIdx]
    /\ ENABLED (SearchEnter /\ ~searchMode'
                            /\ tree'[searchResults[searchCursor + 1].areaIdx + 1].expanded)

\* the commands that edit the query, move the search cursor or toggle a match
C33_StaysInSearch ==
    \/ SearchBackspace \/ (\E r \in QueryRunes : SearchRunes(r))
    \/ SearchUp \/ SearchDown \/ SearchSpace

\* C33: the mode goes from normal to search only by EnterSearch and from search
\* to normal only by cancel or the commit of a match; query edits, search-cursor
\* moves and search-mode toggles stay in search mode; from every search state a
\* single cancel reaches normal mode.
C33_ModeMachine ==
    /\ [][~searchMode /\ searchMode' => KeySearch]_vars
    /\ [][searchMode /\ ~searchMode' => CancelStep \/ CommitStep]_vars
    /\ [][C33_StaysInSearch => searchMode /\ searchMode']_vars
    /\ [](searchMode => ENABLED (SearchEscape /\ ~searchMode'))

\* C33 witness: a search with a query, several matches, the cursor past the first
\* and a toggled match can be left by Escape, and Backspace stays in it.
C33_Witness ==
    /\ searchMode
    /\ Len(searchQuery) > 0
    /\ searchCursor > 0
    /\ ~atEntry.pure
    /\ ENABLED (SearchEscape /\ ~searchMode')
    /\ ENABLED (SearchBackspace /\ searchMode')

\* C34: in every reachable state in search mode the match list is what a search
\* of the tree for the current query gives (the same locations, in forest order,
\* each with its path and coordinate; none for the empty query) and every
\* match's isSelected tells whether its path is in the selection list now.
C34_MatchListFresh ==
    searchMode =>
        /\ {coordOf(searchResults[k]) : k \in 1..Len(searchResults)} =
              IF searchQuery = <<>> THEN {} ELSE Hits(tree, searchQuery)
        /\ \A a, b \in 1..Len(searchResults) :
              a < b => RowBefore(coordOf(searchResults[a]), coordOf(searchResults[b]))
        /\ \A k \in 1..Len(searchResults) :
              LET match == searchResults[k]
              IN  /\ match.fullPath =
                        tree[match.areaIdx + 1].children[match.childIdx + 1].fullPath
                  /\ match.isSelected <=> (match.fullPath \in Range(selected))

\* C34 witness: after query edits and a toggle in search mode the match list of a
\* two-rune query holds a selected and an unselected match.
C34_Witness ==
    /\ searchMode
    /\ Len(searchQuery) = 2
    /\ ~atEntry.pure
    /\ \E a, b \in 1..Len(searchResults) :
          searchResults[a].isSelected /\ ~searchResults[b].isSelected

\* a query edit: Backspace or a typed rune
C35_EditStep == SearchBackspace \/ (\E r \in QueryRunes : SearchRunes(r))

\* C35: in every reachable state searchCursor is 0 when there is no match and
\* within 0..len(matches)-1 otherwise; a query edit after which the cursor is
\* below the new match count leaves the cursor where it was, and one after which
\* it is not resets it to 0.
C35_SearchCursorValid ==
    /\ [](IF Len(searchResults) = 0
          THEN searchCursor = 0
          ELSE 0 <= searchCursor /\ searchCursor <= Len(searchResults) - 1)
    /\ [][C35_EditStep =>
            IF searchCursor < Len(searchResults')
            THEN searchCursor' = searchCursor
            ELSE searchCursor' = 0]_vars

\* C35 witness: the search cursor is past the first match and typing a rune
\* shortens the match list to one that still reaches the cursor, which stays.
C35_Witness ==
    /\ searchMode
    /\ searchCursor > 0
    /\ ENABLED ((\E r \in QueryRunes : SearchRunes(r))
                /\ Len(searchResults') < Len(searchResults)
                /\ searchCursor < Len(searchResults')
                /\ searchCursor' = searchCursor)

\* what the normal-mode commands of C36 would change
C36_Kept ==
    /\ expandedOf(tree') = expandedOf(tree)
    /\ UNCHANGED <<focusedPane, flatTree, treeCursor, selectedCursor>>

\* a key of SwitchPane, RemoveSelected, MoveSelectedUp, MoveSelectedDown or quit
\* pressed in search mode: the runes q, x, K and J, backspace, and the keys no
\* case of handleSearchInput matches
C36_NormalKey ==
    \/ \E r \in NormalKeyRunes : SearchRunes(r)
    \/ SearchBackspace
    \/ SearchUnhandled

C37_EmptyCommitIsCancel ==
    [][SearchEnter /\ Len(searchResults) = 0 =>
         /\ SearchEscape
         /\ ~searchMode'
         /\ \A i \in 1..Len(tree) : tree'[i].expanded = preSearchExpanded.m[i - 1]
         /\ IsFlatViewOf(flatTree', tree')
         /\ UNCHANGED <<treeCursor, focusedPane>>]_vars

\* C37 witness: the selected pane is focused, the tree cursor is past the top and
\* a non-empty query has no match; Enter leaves search mode with the focus and
\* the tree cursor where they were.
C37_Witness ==
    /\ searchMode
    /\ focusedPane = selectedPane
    /\ treeCursor > 0
    /\ Len(searchQuery) > 0
    /\ Len(searchResults) = 0
    /\ ENABLED (SearchEnter /\ ~searchMode' /\ focusedPane' = selectedPane
                            /\ treeCursor' = treeCursor)

====
